---- MODULE Spec2Model ----
(***************************************************************************)
(* First-person character controller (Player script, player.rs).          *)
(*                                                                         *)
(* Numbers are fixed point:                                                *)
(*   angles (yaw, pitch)        hundredths of a degree                     *)
(*   pointer deltas (dx, dy)    whole pixels                               *)
(*   vectors, velocities        thousandths (three integer components)     *)
(*   dt                         sixtieths of a second                      *)
(*   radians                    1e-5 rad                                   *)
(* Pointer deltas are finite numbers (no NaN).                             *)
(***************************************************************************)
EXTENDS Integers, Sequences, FiniteSets, TLC

VARIABLES
    move_forward, move_backward, move_left, move_right,  \* Player fields, player.rs 22-34
    yaw, pitch,                                          \* player.rs 38, 42
    camera,                                              \* player.rs 47: Handle<Node>
    cameraRotation,   \* local rotation of the camera node (scene graph)
    cameraLook,       \* camera.look_vector() of the camera node
    cameraSide,       \* camera.side_vector() of the camera node
    nodeKind,         \* kind of the node the script is attached to
    lin_vel,          \* rigid_body.lin_vel() of that node
    last,             \* history: the last handler call, its inputs and what it read
    sumDx,            \* history: sum of the dx of all pointer-motion events
    sumDy,            \* history: sum of the dy of all pointer-motion events
    inputSeen,        \* history: whether on_os_event has been called at all
    lastPressed       \* history: per key, whether its most recent key event was a press

vars == <<move_forward, move_backward, move_left, move_right, yaw, pitch, camera,
          cameraRotation, cameraLook, cameraSide, nodeKind, lin_vel,
          last, sumDx, sumDy, inputSeen, lastPressed>>

ControllerState == <<move_forward, move_backward, move_left, move_right, yaw, pitch, camera>>

----------------------------------------------------------------------------
(* Bounds of the model *)

SmallDelta == 200      \* a moderate pointer delta, pixels
MaxYaw == 15000        \* events that would take |yaw| beyond this are not explored
MaxDt == 2             \* largest dt, in sixtieths of a second
MaxPresses == 2        \* cap of the counter of consecutive presses kept in last.run

----------------------------------------------------------------------------
(* Program constants *)

mouse_speed == 35          \* 0.35 degrees per pixel
PitchLimit == 8990         \* 89.9 degrees
MovementSpeed == 240       \* 240.0 units per second
Epsilon == 0               \* f32::EPSILON (1.19e-7) in thousandths
VecScale == 1000           \* fixed-point scale of vector components
DtScale == 60              \* fixed-point scale of dt

----------------------------------------------------------------------------
(* Arithmetic helpers *)

Abs(x) == IF x < 0 THEN -x ELSE x

\* division rounding toward zero
Div(a, b) == IF a >= 0 THEN a \div b ELSE -((-a) \div b)

RECURSIVE SqrtSearch(_, _, _)
SqrtSearch(n, lo, hi) ==
    IF lo >= hi THEN lo
    ELSE LET mid == (lo + hi + 1) \div 2
         IN IF mid * mid <= n THEN SqrtSearch(n, mid, hi) ELSE SqrtSearch(n, lo, mid - 1)

\* floor of the square root
ISqrt(n) == SqrtSearch(n, 0, 40000)

\* f32::clamp(min, max)
clamp(x, min, max) == IF x < min THEN min ELSE IF x > max THEN max ELSE x

\* f32::to_radians: hundredths of a degree to 1e-5 rad (pi/180 = 0.017453)
to_radians(deg) == Div(deg * 17453, 1000)

Zero == <<0, 0, 0>>                         \* Vector3::default()
VAdd(a, b) == <<a[1] + b[1], a[2] + b[2], a[3] + b[3]>>
VSub(a, b) == <<a[1] - b[1], a[2] - b[2], a[3] - b[3]>>
norm(v) == ISqrt(v[1] * v[1] + v[2] * v[2] + v[3] * v[3])

\* Vector3::try_normalize(min_norm): None when the norm is <= min_norm
try_normalize(v, min_norm) ==
    LET n == norm(v)
    IN IF n <= min_norm
       THEN [some |-> FALSE, v |-> Zero]
       ELSE [some |-> TRUE,
             v |-> <<Div(v[1] * VecScale, n), Div(v[2] * VecScale, n), Div(v[3] * VecScale, n)>>]

----------------------------------------------------------------------------
(* Inputs *)

NONE == "NONE"                 \* Handle::NONE, resolves to no node
CAMERA == "CAMERA"             \* handle of the camera node
Handles == {NONE, CAMERA}

\* a pointer delta that crosses the whole pitch range in one event
BigDelta == 3 * SmallDelta

\* events that would take |sumDy| beyond this are not explored
SumDyCap == 4 * SmallDelta

MouseDeltas == {-BigDelta, -SmallDelta, SmallDelta, BigDelta}
LookDeltas == {<<2 * SmallDelta, BigDelta>>}  \* the (dx, dy) explored together with the scenes
MappedKeys == {"KeyW", "KeyS", "KeyA", "KeyD"}
KeyCodes == MappedKeys \cup {"KeyQ", "Unidentified"}   \* another code; no physical code
Dts == 0..MaxDt

\* (look_vector, side_vector) pairs the camera node can have
CameraAxes ==
    { <<<<0, 0, -1000>>, <<-1000, 0, 0>>>>,      \* looking down -Z
      <<<<600, 0, 800>>, <<800, 0, -600>>>>,     \* yawed
      <<<<0, -600, 800>>, <<1000, 0, 0>>>> }     \* pitched down

InitialVelocities == { <<1500, -2000, 700>>, <<0, 3000, 0>> }

\* last: op      the handler that ran ("none" before the first call)
\*       dx, dy  the pointer deltas of a pointer-motion event
\*       code, pressed   the key code and state of a keyboard event
\*       was     the flag of that key before the event
\*       pre     presses of that key immediately before the event, run: including it
\*       dt      the dt of a tick; vel: lin_vel before it; look, side: the vectors it used;
\*               rot: the camera rotation before it
NoCall == [op |-> "none", dx |-> 0, dy |-> 0, code |-> "", pressed |-> FALSE, was |-> FALSE,
           pre |-> 0, run |-> 0, dt |-> 0, vel |-> Zero, look |-> Zero, side |-> Zero,
           rot |-> <<0, 0>>]

----------------------------------------------------------------------------
(* Input Aggregator: on_os_event *)

\* line 74: self.pitch = (self.pitch + dy * mouse_speed).clamp(-89.9, 89.9)
NewPitchUnclamped(p, dy) == p + dy * mouse_speed
NewPitchLowOnly(p, dy) == IF p + dy * mouse_speed < -PitchLimit THEN -PitchLimit ELSE p + dy * mouse_speed
NewPitch(p, dy) == clamp(p + dy * mouse_speed, -PitchLimit, PitchLimit)

\* line 75: self.yaw -= dx * mouse_speed
NewYawClamped(y, dx) == clamp(y - dx * mouse_speed, -PitchLimit, PitchLimit)
NewYaw(y, dx) == y - dx * mouse_speed

\* line 83: is_pressed = event.state == ElementState::Pressed
is_pressed(state) == state = "Pressed"

\* lines 86, 89, 92, 95: self.move_* = is_pressed
NewFlagSticky(cur, pressed) == cur \/ pressed
NewFlagToggle(cur, pressed) == IF pressed THEN ~cur ELSE FALSE
NewFlag(cur, pressed) == pressed

\* lines 84-98: the flag `key` after a keyboard event carrying `code`
FlagAfterCatchAll(cur, key, code, pressed) ==
    IF code = key \/ (key = "KeyW" /\ code \notin MappedKeys) THEN NewFlag(cur, pressed) ELSE cur
FlagAfterExclusive(cur, key, code, pressed) ==
    IF code = key THEN NewFlag(cur, pressed)
    ELSE IF pressed /\ code \in MappedKeys THEN FALSE ELSE cur
FlagAfter(cur, key, code, pressed) == IF code = key THEN NewFlag(cur, pressed) ELSE cur

Flag(key) ==
    CASE key = "KeyW" -> move_forward
      [] key = "KeyS" -> move_backward
      [] key = "KeyA" -> move_left
      [] key = "KeyD" -> move_right
      [] OTHER -> FALSE

\* lines 64-76: Event::DeviceEvent { DeviceEvent::MouseMotion { delta: (dx, dy) } }
MouseMotion(dx, dy) ==
    /\ Abs(NewYaw(yaw, dx)) <= MaxYaw
    /\ Abs(sumDy + dy) <= SumDyCap
    /\ pitch' = NewPitch(pitch, dy)
    /\ yaw' = NewYaw(yaw, dx)
    /\ last' = [NoCall EXCEPT !.op = "mouse", !.dx = dx, !.dy = dy]
    /\ sumDx' = sumDx + dx
    /\ sumDy' = sumDy + dy
    /\ inputSeen' = TRUE
    /\ UNCHANGED <<move_forward, move_backward, move_left, move_right, camera,
                   cameraRotation, cameraLook, cameraSide, nodeKind, lin_vel, lastPressed>>

\* lines 78-100: Event::WindowEvent { WindowEvent::KeyboardInput { event } }
\* (code "Unidentified": physical_key is not PhysicalKey::Code)
KeyboardInput(code, state) ==
    /\ move_forward' = FlagAfter(move_forward, "KeyW", code, is_pressed(state))
    /\ move_backward' = FlagAfter(move_backward, "KeyS", code, is_pressed(state))
    /\ move_left' = FlagAfter(move_left, "KeyA", code, is_pressed(state))
    /\ move_right' = FlagAfter(move_right, "KeyD", code, is_pressed(state))
    /\ LET pre == IF last.op = "key" /\ last.code = code THEN last.run ELSE 0
           run == IF ~is_pressed(state) THEN 0
                  ELSE IF pre < MaxPresses THEN pre + 1 ELSE pre
       IN last' = [NoCall EXCEPT !.op = "key", !.code = code, !.pressed = is_pressed(state),
                                 !.was = Flag(code), !.pre = pre, !.run = run]
    /\ lastPressed' = IF code \in MappedKeys
                      THEN [lastPressed EXCEPT ![code] = is_pressed(state)]
                      ELSE lastPressed
    /\ inputSeen' = TRUE
    /\ UNCHANGED <<yaw, pitch, camera, cameraRotation, cameraLook, cameraSide,
                   nodeKind, lin_vel, sumDx, sumDy>>

\* line 101: any other event
OtherEvent ==
    /\ last' = [NoCall EXCEPT !.op = "other"]
    /\ inputSeen' = TRUE
    /\ UNCHANGED <<move_forward, move_backward, move_left, move_right, yaw, pitch, camera,
                   cameraRotation, cameraLook, cameraSide, nodeKind, lin_vel, sumDx, sumDy,
                   lastPressed>>

----------------------------------------------------------------------------
(* Motion Integrator: on_update *)

\* line 111: context.scene.graph.try_get_mut(self.camera) is Some
Resolves(h) == h = CAMERA

\* sine and cosine in thousandths of an angle in hundredths of a degree (Bhaskara)
SinMilli(a) ==
    LET d == Div(a, 100) % 360
        B(x) == (4 * x * (180 - x) * 1000) \div (40500 - x * (180 - x))
    IN IF d <= 180 THEN B(d) ELSE 0 - B(d - 180)
CosMilli(a) == SinMilli(a + 9000)

\* lines 109-113: the look and side vectors used this tick
LookVectorFresh(h) ==
    IF Resolves(h)
    THEN <<Div(SinMilli(yaw) * CosMilli(pitch), 1000), 0 - SinMilli(pitch),
           Div(CosMilli(yaw) * CosMilli(pitch), 1000)>>
    ELSE Zero
LookVectorDefaultAxis(h) == IF Resolves(h) THEN cameraLook ELSE <<0, 0, 1000>>
LookVector(h) == IF Resolves(h) THEN cameraLook ELSE Zero
SideVector(h) == IF Resolves(h) THEN cameraSide ELSE Zero

\* lines 115-122: from_axis_angle(yaw * x, pitch.to_radians()) * from_axis_angle(y, yaw.to_radians()),
\* kept as the pair of angles that determines it
RotationIncremental(y, p) == <<cameraRotation[1] + to_radians(y), cameraRotation[2] + to_radians(p)>>
Rotation(y, p) == <<to_radians(y), to_radians(p)>>

\* lines 133-145: velocity accumulated from the pressed buttons
RawVelocityBackAdds(f, b, l, r, look, side) ==
    LET v0 == Zero
        v1 == IF f THEN VAdd(v0, look) ELSE v0
        v2 == IF b THEN VAdd(v1, look) ELSE v1
        v3 == IF l THEN VAdd(v2, side) ELSE v2
    IN IF r THEN VSub(v3, side) ELSE v3
RawVelocityRightAdds(f, b, l, r, look, side) ==
    LET v0 == Zero
        v1 == IF f THEN VAdd(v0, look) ELSE v0
        v2 == IF b THEN VSub(v1, look) ELSE v1
        v3 == IF l THEN VAdd(v2, side) ELSE v2
    IN IF r THEN VAdd(v3, side) ELSE v3
RawVelocity(f, b, l, r, look, side) ==
    LET v0 == Zero
        v1 == IF f THEN VAdd(v0, look) ELSE v0
        v2 == IF b THEN VSub(v1, look) ELSE v1
        v3 == IF l THEN VAdd(v2, side) ELSE v2
    IN IF r THEN VSub(v3, side) ELSE v3

\* lines 147-158: the linear velocity set on the rigid body; old = rigid_body.lin_vel()
NewLinVelKeepsMoving(velocity, old, dt) ==
    LET y_vel == old[2]
        n == try_normalize(velocity, Epsilon)
        movement_speed == MovementSpeed * dt
    IN IF n.some
       THEN <<Div(n.v[1] * movement_speed, DtScale), y_vel, Div(n.v[3] * movement_speed, DtScale)>>
       ELSE old
NewLinVelDropsY(velocity, old, dt) ==
    LET n == try_normalize(velocity, Epsilon)
        movement_speed == MovementSpeed * dt
    IN IF n.some
       THEN <<Div(n.v[1] * movement_speed, DtScale), 0, Div(n.v[3] * movement_speed, DtScale)>>
       ELSE <<0, old[2], 0>>
NewLinVelUnscaled(velocity, old, dt) ==
    LET y_vel == old[2]
        n == try_normalize(velocity, Epsilon)
    IN IF n.some
       THEN <<n.v[1], y_vel, n.v[3]>>
       ELSE <<0, y_vel, 0>>
NewLinVelBlend(velocity, old, dt) ==
    LET y_vel == old[2]
        n == try_normalize(velocity, Epsilon)
        movement_speed == MovementSpeed * dt
    IN IF n.some
       THEN <<Div(old[1] + Div(n.v[1] * movement_speed, DtScale), 2), y_vel,
              Div(old[3] + Div(n.v[3] * movement_speed, DtScale), 2)>>
       ELSE <<Div(old[1], 2), y_vel, Div(old[3], 2)>>
NewLinVelRaw(velocity, old, dt) ==
    LET y_vel == old[2]
        movement_speed == MovementSpeed * dt
    IN IF norm(velocity) > Epsilon
       THEN <<Div(velocity[1] * movement_speed, DtScale), y_vel,
              Div(velocity[3] * movement_speed, DtScale)>>
       ELSE <<0, y_vel, 0>>
NewLinVel(velocity, old, dt) ==
    LET y_vel == old[2]
        n == try_normalize(velocity, Epsilon)
        movement_speed == MovementSpeed * dt
    IN IF n.some
       THEN <<Div(n.v[1] * movement_speed, DtScale), y_vel, Div(n.v[3] * movement_speed, DtScale)>>
       ELSE <<0, y_vel, 0>>

\* line 127: try_get_mut_of_type::<RigidBody>(context.handle) is Some
IsRigidBody == nodeKind = "RigidBody"

\* lines 107-160
on_updateNested(dt) ==
    LET look_vector == LookVector(camera)
        side_vector == SideVector(camera)
        velocity == RawVelocity(move_forward, move_backward, move_left, move_right,
                                look_vector, side_vector)
    IN /\ cameraRotation' = IF Resolves(camera) /\ IsRigidBody
                            THEN Rotation(yaw, pitch) ELSE cameraRotation
       /\ lin_vel' = IF IsRigidBody THEN NewLinVel(velocity, lin_vel, dt) ELSE lin_vel
       /\ last' = [NoCall EXCEPT !.op = "tick", !.dt = dt, !.vel = lin_vel,
                                 !.look = look_vector, !.side = side_vector,
                                 !.rot = cameraRotation]
       /\ UNCHANGED <<move_forward, move_backward, move_left, move_right, yaw, pitch, camera,
                      cameraLook, cameraSide, nodeKind, sumDx, sumDy, inputSeen, lastPressed>>
on_updateConsumesLook(dt) ==
    LET look_vector == LookVector(camera)
        side_vector == SideVector(camera)
        velocity == RawVelocity(move_forward, move_backward, move_left, move_right,
                                look_vector, side_vector)
    IN /\ cameraRotation' = IF Resolves(camera) THEN Rotation(yaw, pitch) ELSE cameraRotation
       /\ lin_vel' = IF IsRigidBody THEN NewLinVel(velocity, lin_vel, dt) ELSE lin_vel
       /\ yaw' = 0
       /\ pitch' = 0
       /\ last' = [NoCall EXCEPT !.op = "tick", !.dt = dt, !.vel = lin_vel,
                                 !.look = look_vector, !.side = side_vector,
                                 !.rot = cameraRotation]
       /\ UNCHANGED <<move_forward, move_backward, move_left, move_right, camera,
                      cameraLook, cameraSide, nodeKind, sumDx, sumDy, inputSeen, lastPressed>>
on_update(dt) ==
    LET look_vector == LookVector(camera)
        side_vector == SideVector(camera)
        velocity == RawVelocity(move_forward, move_backward, move_left, move_right,
                                look_vector, side_vector)
    IN /\ cameraRotation' = IF Resolves(camera) THEN Rotation(yaw, pitch) ELSE cameraRotation
       /\ lin_vel' = IF IsRigidBody THEN NewLinVel(velocity, lin_vel, dt) ELSE lin_vel
       /\ last' = [NoCall EXCEPT !.op = "tick", !.dt = dt, !.vel = lin_vel,
                                 !.look = look_vector, !.side = side_vector,
                                 !.rot = cameraRotation]
       /\ UNCHANGED <<move_forward, move_backward, move_left, move_right, yaw, pitch, camera,
                      cameraLook, cameraSide, nodeKind, sumDx, sumDy, inputSeen, lastPressed>>

----------------------------------------------------------------------------
(* Specification *)

\* lines 17-49: #[derive(Default)] gives false flags and zero yaw and pitch
DefaultPlayerMoving ==
    /\ move_forward = TRUE
    /\ move_backward = FALSE
    /\ move_left = FALSE
    /\ move_right = FALSE
    /\ yaw = 0
    /\ pitch = 0
DefaultPlayer ==
    /\ move_forward = FALSE
    /\ move_backward = FALSE
    /\ move_left = FALSE
    /\ move_right = FALSE
    /\ yaw = 0
    /\ pitch = 0

NoHistory ==
    /\ last = NoCall
    /\ sumDx = 0
    /\ sumDy = 0
    /\ inputSeen = FALSE
    /\ lastPressed = [k \in MappedKeys |-> FALSE]

\* rotation the scene gives the camera node before the first tick
AuthoredRotation == <<78538, -17453>>

\* The camera handle, the camera node and the controlled node come from the loaded scene.
Init ==
    /\ DefaultPlayer
    /\ camera \in Handles
    /\ cameraRotation = AuthoredRotation
    /\ \E axes \in (IF camera = CAMERA THEN CameraAxes ELSE {<<<<600, 0, 800>>, <<800, 0, -600>>>>}) :
           cameraLook = axes[1] /\ cameraSide = axes[2]
    /\ nodeKind \in {"RigidBody", "Pivot"}
    /\ lin_vel \in (IF nodeKind = "RigidBody" THEN InitialVelocities ELSE {Zero})
    /\ NoHistory

Next ==
    \/ \E d \in LookDeltas : MouseMotion(d[1], d[2])
    \/ \E code \in KeyCodes, state \in {"Pressed", "Released"} : KeyboardInput(code, state)
    \/ OtherEvent
    \/ \E dt \in Dts : on_update(dt)

Spec == Init /\ [][Next]_vars

\* The input aggregator under every pointer delta, in one scene (a rigid body whose
\* script has no camera assigned).
InitInput ==
    /\ DefaultPlayer
    /\ camera = NONE
    /\ cameraRotation = AuthoredRotation
    /\ cameraLook = <<600, 0, 800>>
    /\ cameraSide = <<800, 0, -600>>
    /\ nodeKind = "RigidBody"
    /\ lin_vel = <<1500, -2000, 700>>
    /\ NoHistory

NextInput ==
    \/ \E dx \in MouseDeltas, dy \in MouseDeltas : MouseMotion(dx, dy)
    \/ \E code \in KeyCodes, state \in {"Pressed", "Released"} : KeyboardInput(code, state)
    \/ OtherEvent
    \/ \E dt \in Dts : on_update(dt)

SpecInput == InitInput /\ [][NextInput]_vars

\* The camera rotation under pointer motion in both directions, in one scene (a camera
\* assigned to the script of a node that is not a rigid body).
InitLook ==
    /\ DefaultPlayer
    /\ camera = CAMERA
    /\ cameraRotation = AuthoredRotation
    /\ cameraLook = <<600, 0, 800>>
    /\ cameraSide = <<800, 0, -600>>
    /\ nodeKind = "Pivot"
    /\ lin_vel = Zero
    /\ NoHistory

NextLook ==
    \/ \E dx \in {-2 * SmallDelta, 2 * SmallDelta}, dy \in {-SmallDelta, BigDelta} : MouseMotion(dx, dy)
    \/ \E state \in {"Pressed", "Released"} : KeyboardInput("KeyW", state)
    \/ OtherEvent
    \/ \E dt \in Dts : on_update(dt)

SpecLook == InitLook /\ [][NextLook]_vars

----------------------------------------------------------------------------
(* Properties of the input aggregator (SpecInput) *)

NoFlags == ~move_forward /\ ~move_backward /\ ~move_left /\ ~move_right

\* C1: in every reachable state pitch lies in [-89.9, 89.9], whatever the magnitude
\* and sign of the pointer deltas delivered so far.
C1_PitchInRange == pitch \in (-PitchLimit)..PitchLimit

\* a delta that would carry pitch far beyond the upper limit has been delivered
C1_Witness ==
    /\ last.op = "mouse"
    /\ last.dy = BigDelta
    /\ pitch = PitchLimit
    /\ yaw # 0

C3_YawIsSum == yaw = 0 - mouse_speed * sumDx

\* yaw has left the range pitch is clamped to, while pitch sits on its limit
C3_Witness ==
    /\ last.op = "mouse"
    /\ Abs(yaw) > PitchLimit
    /\ Abs(pitch) = PitchLimit
    /\ sumDx # 0

\* C4: right after a release event of a mapped key its flag is false, whether the flag
\* was true before (press then release) or already false (release is idempotent).
C4_ReleaseClears ==
    (last.op = "key" /\ last.code \in MappedKeys /\ ~last.pressed) => ~Flag(last.code)

\* a key that was held has been released, while another key is still held
C4_Witness ==
    /\ last.op = "key"
    /\ last.code = "KeyA"
    /\ ~last.pressed
    /\ last.was
    /\ ~move_left
    /\ move_forward

\* C5: each movement flag equals the state carried by the most recent key event of its
\* key (false when there was none); presses are not counted.
C5_LastEventWins == \A k \in MappedKeys : Flag(k) = lastPressed[k]

\* a single release after repeated presses of the same key has cleared the flag
C5_Witness ==
    /\ last.op = "key"
    /\ last.code = "KeyW"
    /\ ~last.pressed
    /\ last.pre >= 2
    /\ ~move_forward

----------------------------------------------------------------------------
(* Properties of the motion integrator (Spec) *)

\* C6: a tick on a rigid body with no movement flag set leaves the velocity
\* (0, y_prev, 0), y_prev being the vertical velocity before the tick.
C6_IdleStops ==
    (last.op = "tick" /\ IsRigidBody /\ NoFlags) => lin_vel = <<0, last.vel[2], 0>>

\* an idle tick has stopped a body that was moving horizontally, camera resolved
C6_Witness ==
    /\ last.op = "tick"
    /\ IsRigidBody
    /\ NoFlags
    /\ Resolves(camera)
    /\ last.dt = MaxDt
    /\ last.vel[1] # 0
    /\ last.vel[3] # 0
    /\ lin_vel = <<0, last.vel[2], 0>>

\* C7: a tick on a rigid body with forward and backward both set (left and right not
\* set) accumulates the zero direction and sets the X and Z velocity to zero.
C7_OpposingCancel ==
    (last.op = "tick" /\ IsRigidBody
        /\ move_forward /\ move_backward /\ ~move_left /\ ~move_right)
    => /\ RawVelocity(TRUE, TRUE, FALSE, FALSE, last.look, last.side) = Zero
       /\ lin_vel[1] = 0
       /\ lin_vel[3] = 0

\* such a tick has run with a non-zero look vector on a body that was moving
C7_Witness ==
    /\ last.op = "tick"
    /\ IsRigidBody
    /\ move_forward /\ move_backward /\ ~move_left /\ ~move_right
    /\ last.look # Zero
    /\ last.dt > 0
    /\ last.vel[1] # 0
    /\ lin_vel[1] = 0
    /\ lin_vel[3] = 0

\* C8: every tick on a rigid body leaves the Y component of its linear velocity as it
\* was before the tick, in the moving branch and in the zero-direction branch.
C8_VerticalKept == (last.op = "tick" /\ IsRigidBody) => lin_vel[2] = last.vel[2]

\* the moving branch has written a horizontal velocity on a body with vertical velocity
C8_Witness ==
    /\ last.op = "tick"
    /\ IsRigidBody
    /\ lin_vel[1] # 0
    /\ lin_vel[1] # last.vel[1]
    /\ last.vel[2] # 0
    /\ lin_vel[2] = last.vel[2]

OnlyForward == move_forward /\ ~move_backward /\ ~move_left /\ ~move_right

\* C9: with only forward set, look_vector = (0,0,-1) and dt = 1/60, a tick on a rigid
\* body sets the velocity to (0, y_prev, -4.0).
C9_ForwardSpeed ==
    (last.op = "tick" /\ IsRigidBody /\ OnlyForward /\ Resolves(camera)
        /\ last.look = <<0, 0, -1000>> /\ last.dt = 1)
    => lin_vel = <<0, last.vel[2], -4000>>

C9_Witness ==
    /\ last.op = "tick"
    /\ IsRigidBody
    /\ OnlyForward
    /\ Resolves(camera)
    /\ last.look = <<0, 0, -1000>>
    /\ last.dt = 1
    /\ last.vel = <<1500, -2000, 700>>
    /\ lin_vel = <<0, -2000, -4000>>

\* C10: a tick whose camera reference does not resolve leaves the camera rotation
\* as it was, uses zero look and side vectors, and leaves the velocity untouched or
\* with X and Z zeroed and Y kept, for every combination of flags.
C10_NoCameraTick ==
    [][(last'.op = "tick" /\ ~Resolves(camera))
        => /\ cameraRotation' = cameraRotation
           /\ last'.look = Zero
           /\ last'.side = Zero
           /\ (lin_vel' = lin_vel \/ lin_vel' = <<0, lin_vel[2], 0>>)]_vars

\* such a tick has run with a movement key held, after the pointer moved, on a moving body
C10_Witness ==
    /\ last.op = "tick"
    /\ ~Resolves(camera)
    /\ IsRigidBody
    /\ OnlyForward
    /\ yaw # 0
    /\ last.dt > 0
    /\ last.vel[1] # 0
    /\ lin_vel = <<0, last.vel[2], 0>>
    /\ cameraRotation = AuthoredRotation

\* C11: a tick on a node that is not a rigid body still writes the rotation derived
\* from yaw and pitch to a resolved camera (and leaves an unresolved one alone), and
\* leaves the velocity untouched.
C11_NotRigidBody ==
    [][(last'.op = "tick" /\ nodeKind # "RigidBody")
        => /\ lin_vel' = lin_vel
           /\ cameraRotation' = IF camera = CAMERA THEN Rotation(yaw, pitch) ELSE cameraRotation]_vars

\* such a tick has turned the camera, with movement keys held
C11_Witness ==
    /\ last.op = "tick"
    /\ nodeKind = "Pivot"
    /\ camera = CAMERA
    /\ move_forward
    /\ yaw # 0
    /\ cameraRotation = Rotation(yaw, pitch)
    /\ last.rot # cameraRotation
    /\ lin_vel = last.vel

C13_Ignored ==
    [][(last'.op = "other" \/ (last'.op = "key" /\ last'.code \notin MappedKeys))
        => ControllerState' = ControllerState]_vars

\* an unmapped key has been pressed while the state was not the default one
C13_Witness ==
    /\ last.op = "key"
    /\ last.code = "KeyQ"
    /\ last.pressed
    /\ ~move_forward
    /\ move_left
    /\ yaw # 0

\* C14: a key event of a mapped key leaves the other three flags, yaw and pitch
\* unchanged; a pointer-motion event leaves the four flags unchanged; no event changes
\* the camera reference, the camera rotation or the velocity.
C14_EventFrame ==
    [][/\ (last'.op = "key" /\ last'.code \in MappedKeys)
            => /\ \A k \in MappedKeys \ {last'.code} : Flag(k)' = Flag(k)
               /\ yaw' = yaw
               /\ pitch' = pitch
       /\ (last'.op = "mouse")
            => <<move_forward, move_backward, move_left, move_right>>'
                 = <<move_forward, move_backward, move_left, move_right>>
       /\ (last'.op \in {"key", "mouse", "other"})
            => /\ camera' = camera
               /\ cameraRotation' = cameraRotation
               /\ lin_vel' = lin_vel]_vars

\* a fourth key has been pressed while two others were held and the camera was turned
C14_Witness ==
    /\ last.op = "key"
    /\ last.code = "KeyD"
    /\ last.pressed
    /\ ~last.was
    /\ move_right
    /\ move_forward
    /\ move_left
    /\ yaw # 0
    /\ pitch # 0

B(flag) == IF flag THEN 1 ELSE 0
VScale(k, v) == <<k * v[1], k * v[2], k * v[3]>>
AllFour == move_forward /\ move_backward /\ move_left /\ move_right

\* C15: for all 16 combinations of the flags the direction a tick accumulates is
\* (forward - backward) * look + (left - right) * side; so left and right cancel, all
\* four flags give zero horizontal velocity, and forward + backward + left moves along
\* +side only.
C15_Direction ==
    (last.op = "tick")
    => /\ \A f, b, l, r \in BOOLEAN :
             RawVelocity(f, b, l, r, last.look, last.side)
               = VAdd(VScale(B(f) - B(b), last.look), VScale(B(l) - B(r), last.side))
       /\ IsRigidBody
            => /\ lin_vel = NewLinVel(VAdd(VScale(B(move_forward) - B(move_backward), last.look),
                                           VScale(B(move_left) - B(move_right), last.side)),
                                      last.vel, last.dt)
               /\ (move_left /\ move_right /\ ~move_forward /\ ~move_backward)
                    => (lin_vel[1] = 0 /\ lin_vel[3] = 0)
               /\ AllFour => (lin_vel[1] = 0 /\ lin_vel[3] = 0)
               /\ (move_forward /\ move_backward /\ move_left /\ ~move_right)
                    => lin_vel = NewLinVel(last.side, last.vel, last.dt)

\* a tick with all four keys held has stopped a moving body, camera resolved
C15_Witness ==
    /\ last.op = "tick"
    /\ IsRigidBody
    /\ AllFour
    /\ last.look # Zero
    /\ last.dt > 0
    /\ last.vel[1] # 0
    /\ lin_vel = <<0, last.vel[2], 0>>

OtherVelocities == InitialVelocities \cup {Zero, <<-9000, 100, 9000>>}

\* C16: the X and Z velocity a tick writes do not depend on the velocity the body had:
\* with the same flags, look and side vectors and dt, any other prior velocity gives
\* the same X and Z.
C16_Memoryless ==
    (last.op = "tick" /\ IsRigidBody)
    => \A v \in OtherVelocities :
          LET w == NewLinVel(RawVelocity(move_forward, move_backward, move_left, move_right,
                                         last.look, last.side), v, last.dt)
          IN w[1] = lin_vel[1] /\ w[3] = lin_vel[3]

\* a tick has replaced a horizontal velocity by a different, non-zero one
C16_Witness ==
    /\ last.op = "tick"
    /\ IsRigidBody
    /\ move_forward
    /\ last.dt > 0
    /\ last.vel[1] # 0
    /\ lin_vel[1] # 0
    /\ lin_vel[1] # last.vel[1]
    /\ lin_vel[3] # last.vel[3]

\* C17 (as stated): the rotation a tick writes is the one given by the sums of all
\* pointer deltas delivered since the start.
C17_SumOfDeltas ==
    (last.op = "tick" /\ Resolves(camera))
    => cameraRotation = Rotation(0 - mouse_speed * sumDx,
                                 clamp(mouse_speed * sumDy, -PitchLimit, PitchLimit))

\* C17 (amended): the rotation a tick writes is a function of the current yaw and pitch
\* only, yaw being -0.35 times the sum of all dx; a tick that follows a tick writes the
\* same rotation again.
C17_FromYawPitch ==
    [][(last'.op = "tick" /\ Resolves(camera))
        => /\ cameraRotation' = <<to_radians(yaw), to_radians(pitch)>>
           /\ yaw = 0 - mouse_speed * sumDx
           /\ (last.op = "tick" => cameraRotation' = cameraRotation)]_vars

\* a tick has written the rotation of a pitch that came back from its upper limit,
\* over a rotation written by an earlier tick
C17_Witness ==
    /\ last.op = "tick"
    /\ Resolves(camera)
    /\ pitch = PitchLimit - SmallDelta * mouse_speed
    /\ sumDy = BigDelta - SmallDelta
    /\ cameraRotation = <<to_radians(yaw), to_radians(pitch)>>
    /\ last.rot # cameraRotation
    /\ last.rot # AuthoredRotation

\* C18: before any input event all four flags are false and yaw and pitch are 0, so a
\* tick that runs then sets the horizontal velocity of a rigid body to zero and writes
\* the zero-yaw, zero-pitch rotation to a resolved camera.
C18_FirstTick ==
    ~inputSeen
    => /\ NoFlags
       /\ yaw = 0
       /\ pitch = 0
       /\ (last.op = "tick" /\ IsRigidBody) => lin_vel = <<0, last.vel[2], 0>>
       /\ (last.op = "tick" /\ Resolves(camera)) => cameraRotation = <<0, 0>>

\* the first tick has stopped a moving body and replaced the camera's authored rotation
C18_Witness ==
    /\ ~inputSeen
    /\ last.op = "tick"
    /\ IsRigidBody
    /\ Resolves(camera)
    /\ last.dt > 0
    /\ last.vel[1] # 0
    /\ lin_vel[1] = 0
    /\ last.rot = AuthoredRotation
    /\ cameraRotation = <<0, 0>>

\* C19: a tick leaves the four flags, yaw, pitch and the camera reference as they were.
C19_TickKeepsState == [][(last'.op = "tick") => ControllerState' = ControllerState]_vars

\* a tick has written a rotation and a velocity while keys were held and the pointer moved
C19_Witness ==
    /\ last.op = "tick"
    /\ IsRigidBody
    /\ Resolves(camera)
    /\ move_forward
    /\ move_right
    /\ yaw # 0
    /\ pitch # 0
    /\ cameraRotation # last.rot
    /\ lin_vel # last.vel

HorizontalSq == lin_vel[1] * lin_vel[1] + lin_vel[3] * lin_vel[3]
\* movement_speed * dt in thousandths, and what the fixed-point rounding can take off it
SpeedCap(dt) == Div(MovementSpeed * dt * VecScale, DtScale)
Slack(dt) == Div(3 * MovementSpeed * dt, DtScale)

====
